---- MODULE Spec2Model ----
(***************************************************************************)
(* Path-prefix remapping (ClangdContext.completionPrefixMap and the        *)
(* provideDefinition / provideDocumentLinks middleware) and the debounced  *)
(* mapping-file watcher (CustomFileWatcher) of vscode-clangd.              *)
(*                                                                         *)
(* JavaScript strings are sequences of one-character strings, so that      *)
(* String.split, Array.join and String.replace are modelled by what they   *)
(* do on characters.  The alphabet has no '$', so the replacement patterns *)
(* of String.replace never occur in a replacement value.                   *)
(***************************************************************************)
EXTENDS Integers, Sequences, FiniteSets, Bags, TLC

VARIABLES
    completionPrefixMap,      \* ClangdContext.completionPrefixMap: the trie
    completionPrefixMapPath,  \* ClangdContext.completionPrefixMapPath
    mapFile,                  \* per storage directory: the mapping file on disk
    files,                    \* real files on disk that paths refer to
    links,                    \* symbolic links on disk: alias -> real file
    lastReload,               \* what the latest updateCompletionPrefixMap found
    op,                       \* the latest operation and what it returned
    phase,                    \* how far activate() / dispose() of the context got
    client,                   \* ClangdContext.client
    fileWatcher,              \* CustomFileWatcher.fileWatcher
    pending,                  \* a change/create event not yet delivered
    debounceTimer,            \* CustomFileWatcher.debounceTimer
    timers,                   \* the bag of timers setTimeout created
    sinceNotif,               \* ms since the latest notification (capped)
    burstFirings              \* timer callbacks started for the current burst

remapVars == <<completionPrefixMap, completionPrefixMapPath, mapFile, files,
               links, lastReload, op>>

watchVars == <<phase, client, fileWatcher, pending, debounceTimer,
               timers, sinceNotif, burstFirings>>

vars == <<remapVars, watchVars>>

----------------------------------------------------------------------------
(* Bounds *)

MaxFiles == 2       \* real files on disk at once
MaxSegs == 3        \* components of the paths looked up in the trie alone
MaxTimers == 2      \* timers that exist at once (armed or in their callback)
TicksPerDelay == 2  \* clock ticks that make up the debounce delay

----------------------------------------------------------------------------
(* Strings *)

Chars == {"/", "a", "b"}
Slash == "/"

\* The JavaScript value undefined (no string is equal to it).
Undefined == <<"undefined">>

RECURSIVE SplitAcc(_, _, _, _)
SplitAcc(s, i, cur, acc) ==
    IF i > Len(s) THEN Append(acc, cur)
    ELSE IF s[i] = Slash THEN SplitAcc(s, i + 1, <<>>, Append(acc, cur))
    ELSE SplitAcc(s, i + 1, Append(cur, s[i]), acc)

\* s.split("/")
Split(s) == SplitAcc(s, 1, <<>>, <<>>)

RECURSIVE Join(_)
\* components.join('/')
Join(segs) ==
    IF Len(segs) = 0 THEN <<>>
    ELSE IF Len(segs) = 1 THEN segs[1]
    ELSE segs[1] \o <<Slash>> \o Join(Tail(segs))

\* The positions at which pat occurs in s (1-based).
Occurrences(s, pat) ==
    {i \in 1..(Len(s) + 1 - Len(pat)) : SubSeq(s, i, i + Len(pat) - 1) = pat}

Min(S) == CHOOSE x \in S : \A y \in S : x <= y

\* s.replace(pat, rep) with a string pattern: the first occurrence only.
Replace(s, pat, rep) ==
    IF Occurrences(s, pat) = {} THEN s
    ELSE LET i == Min(Occurrences(s, pat))
         IN  SubSeq(s, 1, i - 1) \o rep \o SubSeq(s, i + Len(pat), Len(s))

\* JavaScript truthiness of an optional string: undefined and "" are falsy.
Truthy(v) == v # Undefined /\ v # <<>>

----------------------------------------------------------------------------
(* trieNode: a trie is a function from node paths (the sequence of         *)
(* components from the root) to the node's value.                          *)

Root == <<>>

\* new trieNode(undefined)
EmptyTrie == [n \in {Root} |-> Undefined]

\* As Insert, but a key whose node already carries replacePath loses its value.
Insert_Toggle(t, prefixPath, replacePath) ==
    LET comps == Split(prefixPath)
        created == {SubSeq(comps, 1, i) : i \in 0..Len(comps)}
    IN  [n \in (DOMAIN t) \cup created |->
            IF n = comps
            THEN IF n \in DOMAIN t /\ t[n] = replacePath
                 THEN Undefined ELSE replacePath
            ELSE IF n \in DOMAIN t THEN t[n]
            ELSE Undefined]

\* The body of the for-in loop of updateCompletionPrefixMap for one key.
Insert(t, prefixPath, replacePath) ==
    LET comps == Split(prefixPath)
        created == {SubSeq(comps, 1, i) : i \in 0..Len(comps)}
    IN  [n \in (DOMAIN t) \cup created |->
            IF n = comps THEN replacePath
            ELSE IF n \in DOMAIN t THEN t[n]
            ELSE Undefined]

RECURSIVE InsertAll(_, _, _)
\* for (const key in completionPrefixMap) { ... }
InsertAll(t, doc, keys) ==
    IF keys = {} THEN t
    ELSE LET k == CHOOSE k \in keys : TRUE
         IN  InsertAll(Insert(t, k, doc[k]), doc, keys \ {k})

RECURSIVE Walk_Restart(_, _, _, _)
\* As Walk, but a component without a child under the current node is looked
\* up under the first-level node again.
Walk_Restart(t, comps, i, node) ==
    IF i > Len(comps) THEN node
    ELSE IF Append(node, comps[i]) \in DOMAIN t
         THEN Walk_Restart(t, comps, i + 1, Append(node, comps[i]))
         ELSE IF <<comps[1], comps[i]>> \in DOMAIN t
         THEN Walk_Restart(t, comps, i + 1, <<comps[1], comps[i]>>)
         ELSE Walk_Restart(t, comps, i + 1, node)

RECURSIVE Walk(_, _, _, _)
\* The for loop of getPrefixPathAndReplacePathWithPath: the node reached.
Walk(t, comps, i, node) ==
    IF i > Len(comps) THEN node
    ELSE IF Append(node, comps[i]) \in DOMAIN t
         THEN Walk(t, comps, i + 1, Append(node, comps[i]))
         ELSE Walk(t, comps, i + 1, node)

\* getPrefixPathAndReplacePathWithPath(filePath): <<prefixPath, value>> or undefined
getPrefixPathAndReplacePathWithPath(t, filePath) ==
    LET node == Walk(t, Split(filePath), 1, Root)
    IN  IF Truthy(t[node]) THEN <<Join(node), t[node]>> ELSE Undefined

----------------------------------------------------------------------------
(* The mapping file *)

Absent == [kind |-> "absent", doc |-> <<>>]
EmptyFile == [kind |-> "empty", doc |-> <<>>]
Json(d) == [kind |-> "json", doc |-> d]
\* Text that starts like the entries of d and is not valid JSON.
Malformed(d) == [kind |-> "malformed", doc |-> d]

\* existsSync(completionPrefixMapPath)
MapFileExists(c) == c.kind # "absent"

\* JSON.parse(readFileSync(path, "utf-8")) throws a SyntaxError
ParseThrows(c) == c.kind \in {"empty", "malformed"}

\* (await vscode.workspace.fs.stat(uri)).size of a file that exists
FileSize(c) ==
    IF c.kind = "empty" THEN 0 ELSE 2 + Cardinality(DOMAIN c.doc)

\* this.completionPrefixMapPath.concat("/completion_prefix_map.json")
MapFileOf(dir) == dir

\* As updateCompletionPrefixMap, but an absent file empties the trie.
updateCompletionPrefixMap_ClearOnAbsent(t, c) ==
    IF ~MapFileExists(c) THEN [trie |-> EmptyTrie, outcome |-> "ok"]
    ELSE IF ParseThrows(c) THEN [trie |-> t, outcome |-> "throws"]
    ELSE [trie |-> InsertAll(t, c.doc, DOMAIN c.doc), outcome |-> "ok"]

\* As updateCompletionPrefixMap, but the entries go into a new, empty trie
\* that then replaces the old one.
updateCompletionPrefixMap_Fresh(t, c) ==
    IF ~MapFileExists(c) THEN [trie |-> t, outcome |-> "ok"]
    ELSE IF ParseThrows(c) THEN [trie |-> t, outcome |-> "throws"]
    ELSE [trie |-> InsertAll(EmptyTrie, c.doc, DOMAIN c.doc), outcome |-> "ok"]

\* As updateCompletionPrefixMap, but the entries read before the syntax error
\* are inserted before the error is raised.
updateCompletionPrefixMap_Partial(t, c) ==
    IF ~MapFileExists(c) THEN [trie |-> t, outcome |-> "ok"]
    ELSE IF ParseThrows(c)
    THEN [trie |-> InsertAll(t, c.doc, DOMAIN c.doc), outcome |-> "throws"]
    ELSE [trie |-> InsertAll(t, c.doc, DOMAIN c.doc), outcome |-> "ok"]

\* updateCompletionPrefixMap(): the trie it leaves and whether it throws.
updateCompletionPrefixMap(t, c) ==
    IF ~MapFileExists(c) THEN [trie |-> t, outcome |-> "ok"]
    ELSE IF ParseThrows(c) THEN [trie |-> t, outcome |-> "throws"]
    ELSE [trie |-> InsertAll(t, c.doc, DOMAIN c.doc), outcome |-> "ok"]

----------------------------------------------------------------------------
(* The disk seen by realpathSync and existsSync *)

\* existsSync(p)
existsSync(p) == p \in files \/ (p \in DOMAIN links /\ links[p] \in files)

\* realpathSync(p) of a path that exists
realpathSync(p) == IF p \in files THEN p ELSE links[p]

\* As Resolve, without the existsSync check of the candidate.
Resolve_NoExistsCheck(t, p) ==
    IF ~existsSync(p) THEN [outcome |-> "throws", result |-> Undefined]
    ELSE LET filePath == realpathSync(p)
             prefixAndReplacePath == getPrefixPathAndReplacePathWithPath(t, filePath)
         IN  IF prefixAndReplacePath # Undefined
             THEN [outcome |-> "ok",
                   result |-> Replace(filePath, prefixAndReplacePath[1],
                                      prefixAndReplacePath[2])]
             ELSE [outcome |-> "ok", result |-> p]

\* The body of provideDefinition / provideDocumentLinks for one item whose
\* path is p: the path of the item returned, or that an exception escaped.
Resolve(t, p) ==
    IF ~existsSync(p) THEN [outcome |-> "throws", result |-> Undefined]
    ELSE LET filePath == realpathSync(p)
             prefixAndReplacePath == getPrefixPathAndReplacePathWithPath(t, filePath)
         IN  IF prefixAndReplacePath # Undefined
             THEN LET resolvePath == Replace(filePath, prefixAndReplacePath[1],
                                             prefixAndReplacePath[2])
                  IN  IF existsSync(resolvePath)
                      THEN [outcome |-> "ok", result |-> resolvePath]
                      ELSE [outcome |-> "ok", result |-> p]
             ELSE [outcome |-> "ok", result |-> p]

----------------------------------------------------------------------------
(* Inputs *)

sA == <<"/", "a">>
sB == <<"/", "b">>
sAB == <<"/", "a", "/", "b">>

\* Prefix keys and replacement values a mapping document may hold.
Keys == {sA, sAB}
Values == {sB, <<>>}

Docs == UNION {[ks -> Values] : ks \in SUBSET Keys}

\* A truncated write of {"/a": "/b", ...
Torn == Malformed([k \in {sA} |-> sB])

Contents == {Absent, EmptyFile, Torn} \cup {Json(d) : d \in Docs}

Dirs == {"storage"}

sBA == <<"/", "b", "/", "a">>
sBB == <<"/", "b", "/", "b">>

\* Absolute paths on disk and in the items the language server returns.
Paths == {sA, sB, sAB, sBA, sBB}

\* Paths that may be symbolic links.
LinkNames == {sBA}

\* Inputs of the lookup taken alone: documents over nested and unrelated
\* keys, and every absolute path of up to MaxSegs components.
LookupKeys == {sA, sB, sAB}
LookupDocs == UNION {[ks -> Values] : ks \in SUBSET LookupKeys}
Components == {<<"a">>, <<"b">>}
AbsPaths(n) == {Join(<<<<>>>> \o cs) : cs \in [1..n -> Components]}
LookupPaths == UNION {AbsPaths(n) : n \in 1..MaxSegs}

NoOp == [kind |-> "init", path |-> <<>>, outcome |-> "ok", result |-> Undefined,
         before |-> EmptyTrie, called |-> FALSE, policy |-> "unset", uri |-> "",
         again |-> FALSE]

\* The latest step was one of the environment (disk, settings, clock).
Env == [NoOp EXCEPT !.kind = "env"]

\* What lastReload records of the mapping file a reload met.
Met(c) == IF MapFileExists(c) THEN "found" ELSE "absent"

----------------------------------------------------------------------------
(* CustomFileWatcher and the life cycle of the context *)

\* The delay of the setTimeout in debouncedHandleConfigFilesChanged, in ms.
DebounceDelay == 2000

\* The clock advances in steps of this many ms.
TimeStep == DebounceDelay \div TicksPerDelay

\* A timer is a record: its state ("armed", or "running" once its callback
\* has started), the uri its callback closed over, the ms left until it is
\* due, whether a notification of the current burst armed it, and whether it
\* is the timer this.debounceTimer refers to.  debounceTimer itself is
\* "undefined" or "timeout"; it is "timeout" with no timer marked current
\* when the timer it refers to has ended.
NewTimer(uri) == [state |-> "armed", uri |-> uri, remaining |-> DebounceDelay,
                  burst |-> TRUE, current |-> TRUE]

RECURSIVE CopiesOf(_, _)
\* How many timers of bag b lie in the set S of records.
CopiesOf(b, S) ==
    IF S = {} THEN 0
    ELSE LET t == CHOOSE t \in S : TRUE
         IN  b[t] + CopiesOf(b, S \ {t})

\* The bag of the f[t], t a timer of bag b.
MapBag(b, f) ==
    [r \in {f[t] : t \in DOMAIN b} |-> CopiesOf(b, {t \in DOMAIN b : f[t] = r})]

One(t) == SetToBag({t})

\* The values of clangd.onConfigChanged ("unset": the setting has no value).
Policies == {"prompt", "restart", "ignore", "unset"}

\* Mapping-file contents while the watcher is observed.
WatchContents == {Absent, EmptyFile, Torn, Json([k \in {sA} |-> sB])}

SmallerOf(a, b) == IF a <= b THEN a ELSE b
LargerOf(a, b) == IF a >= b THEN a ELSE b

\* As IsEmptyWrite, with < for <=.
IsEmptyWrite_Strict(size) == size < 0

\* if ((await vscode.workspace.fs.stat(uri)).size <= 0) return;
IsEmptyWrite(size) == size <= 0

\* CustomFileWatcher.dispose(), and the first statement of
\* createFileSystemWatcher: if (this.fileWatcher) this.fileWatcher.dispose()
DisposeFileWatcher(fw) == IF fw = "undefined" THEN fw ELSE "disposed"

\* createFileSystemWatcher(): the value of this.fileWatcher afterwards, c
\* being the mapping file at that time.
createFileSystemWatcher(fw, c) ==
    IF MapFileExists(c) THEN "live" ELSE DisposeFileWatcher(fw)

\* As handleConfigFilesChanged, but case 'restart' has no break and falls
\* through to the default case.
handleConfigFilesChanged_Fallthrough(t, statted, c, pol) ==
    IF ~MapFileExists(statted)
    THEN [trie |-> t, outcome |-> "throws", called |-> FALSE, read |-> "none"]
    ELSE IF IsEmptyWrite(FileSize(statted))
    THEN [trie |-> t, outcome |-> "ok", called |-> FALSE, read |-> "none"]
    ELSE IF pol \in {"ignore"}
    THEN [trie |-> t, outcome |-> "ok", called |-> FALSE, read |-> "none"]
    ELSE LET r == updateCompletionPrefixMap(t, c)
         IN  [trie |-> r.trie, outcome |-> r.outcome, called |-> TRUE,
              read |-> Met(c)]

\* handleConfigFilesChanged(uri) from the moment stat answers: statted is
\* the file at uri, c the mapping file, pol the setting read by the switch.
handleConfigFilesChanged(t, statted, c, pol) ==
    IF ~MapFileExists(statted)
    THEN [trie |-> t, outcome |-> "throws", called |-> FALSE, read |-> "none"]
    ELSE IF IsEmptyWrite(FileSize(statted))
    THEN [trie |-> t, outcome |-> "ok", called |-> FALSE, read |-> "none"]
    ELSE IF pol \in {"restart", "ignore"}
    THEN [trie |-> t, outcome |-> "ok", called |-> FALSE, read |-> "none"]
    ELSE LET r == updateCompletionPrefixMap(t, c)
         IN  [trie |-> r.trie, outcome |-> r.outcome, called |-> TRUE,
              read |-> Met(c)]

\* clearTimeout(this.debounceTimer): the timer the field refers to is
\* cancelled if it is still armed; otherwise nothing happens.
clearTimeout(ts) ==
    ts (-) SetToBag({t \in BagToSet(ts) : t.current /\ t.state = "armed"})

\* An assignment to this.debounceTimer: no timer of ts is referred to any more.
Unrefer(ts) == MapBag(ts, [t \in DOMAIN ts |-> [t EXCEPT !.current = FALSE]])

\* A new burst starts: no timer of ts belongs to the current burst.
Unburst(ts) == MapBag(ts, [t \in DOMAIN ts |-> [t EXCEPT !.burst = FALSE]])

\* An armed timer whose delay has elapsed: its callback starts before the
\* clock advances and before the extension handles another event.
TimerDue == \E t \in BagToSet(timers) : t.state = "armed" /\ t.remaining <= 0

InitWatcher ==
    /\ phase = "new"
    /\ client = "undefined"
    /\ fileWatcher = "undefined"
    /\ pending = FALSE
    /\ debounceTimer = "undefined"
    /\ timers = EmptyBag
    /\ sinceNotif = DebounceDelay
    /\ burstFirings = 0

\* ClangdContext.activate(): installed is whether install.activate found a
\* clangd binary, pol what config.get('onConfigChanged') returns in
\* customFileWatcher.activate.  updateCompletionPrefixMap() runs before the
\* client is created; an exception it throws rejects activate().
Activate(installed, pol) ==
    LET c == mapFile[MapFileOf(completionPrefixMapPath)]
        r == updateCompletionPrefixMap(completionPrefixMap, c)
    IN  /\ phase = "new"
        /\ IF ~installed
           THEN /\ phase' = "noClangd"
                /\ op' = [NoOp EXCEPT !.kind = "activate",
                                      !.before = completionPrefixMap]
                /\ UNCHANGED <<completionPrefixMap, lastReload, client>>
           ELSE /\ completionPrefixMap' = r.trie
                /\ lastReload' = Met(c)
                /\ op' = [NoOp EXCEPT !.kind = "activate", !.outcome = r.outcome,
                                      !.before = completionPrefixMap,
                                      !.called = TRUE]
                /\ IF r.outcome = "throws"
                   THEN phase' = "failed" /\ client' = client
                   ELSE /\ client' = "started"
                        /\ phase' = IF pol # "ignore" THEN "registered"
                                    ELSE "started"
        /\ UNCHANGED <<completionPrefixMapPath, mapFile, files, links>>
        /\ UNCHANGED <<fileWatcher, pending, debounceTimer, timers,
                       sinceNotif, burstFirings>>

\* CustomFileWatcherFeature.initialize(): new CustomFileWatcher(context).
Initialize ==
    /\ phase = "registered"
    /\ phase' = "watching"
    /\ fileWatcher' = createFileSystemWatcher(fileWatcher,
                          mapFile[MapFileOf(completionPrefixMapPath)])
    /\ op' = [NoOp EXCEPT !.kind = "initialize"]
    /\ UNCHANGED <<completionPrefixMap, completionPrefixMapPath, mapFile, files,
                   links, lastReload>>
    /\ UNCHANGED <<client, pending, debounceTimer, timers, sinceNotif,
                   burstFirings>>

\* onDidChangeWorkspaceFolders: createFileSystemWatcher() again.  Events of
\* the watcher it disposes are not delivered any more.
WorkspaceFoldersChanged ==
    /\ phase = "watching"
    /\ ~TimerDue
    /\ fileWatcher' = createFileSystemWatcher(fileWatcher,
                          mapFile[MapFileOf(completionPrefixMapPath)])
    /\ pending' = FALSE
    /\ op' = [NoOp EXCEPT !.kind = "folders"]
    /\ UNCHANGED <<completionPrefixMap, completionPrefixMapPath, mapFile, files,
                   links, lastReload>>
    /\ UNCHANGED <<phase, client, debounceTimer, timers, sinceNotif,
                   burstFirings>>

\* debouncedHandleConfigFilesChanged(uri): onDidChange / onDidCreate delivers
\* the pending event of the watched file.
Notify ==
    LET uri == MapFileOf(completionPrefixMapPath)
        cleared == IF debounceTimer # "undefined"
                   THEN clearTimeout(timers) ELSE timers
        newBurst == sinceNotif >= DebounceDelay
        kept == IF newBurst THEN Unburst(cleared) ELSE cleared
    IN  /\ pending /\ fileWatcher = "live"
        /\ ~TimerDue
        /\ BagCardinality(cleared) < MaxTimers
        /\ timers' = Unrefer(kept) (+) One(NewTimer(uri))
        /\ debounceTimer' = "timeout"
        /\ pending' = FALSE
        /\ sinceNotif' = 0
        /\ burstFirings' = IF newBurst THEN 0 ELSE burstFirings
        /\ op' = [NoOp EXCEPT !.kind = "notify", !.uri = uri]
        /\ UNCHANGED <<completionPrefixMap, completionPrefixMapPath, mapFile,
                       files, links, lastReload>>
        /\ UNCHANGED <<phase, client, fileWatcher>>

\* The delay of timer t has elapsed: its callback starts and awaits
\* vscode.workspace.fs.stat(uri) inside handleConfigFilesChanged.
TimerFires(t) ==
    /\ t \in BagToSet(timers)
    /\ t.state = "armed" /\ t.remaining <= 0
    /\ timers' = (timers (-) One(t))
                   (+) One([t EXCEPT !.state = "running", !.burst = FALSE])
    /\ burstFirings' = IF t.burst
                       THEN SmallerOf(burstFirings + 1, MaxTimers)
                       ELSE burstFirings
    /\ op' = [NoOp EXCEPT !.kind = "fire", !.uri = t.uri]
    /\ UNCHANGED <<completionPrefixMap, completionPrefixMapPath, mapFile, files,
                   links, lastReload>>
    /\ UNCHANGED <<phase, client, fileWatcher, pending, debounceTimer,
                   sinceNotif>>

\* stat answers in the callback of timer t: the rest of
\* handleConfigFilesChanged runs and then, unless it threw, the callback's
\* last statement: this.debounceTimer = undefined.  pol is what
\* config.get('onConfigChanged') returns at that time.
StatCompletes(t, pol) ==
    LET r == handleConfigFilesChanged(completionPrefixMap, mapFile[t.uri],
                 mapFile[MapFileOf(completionPrefixMapPath)], pol)
    IN  /\ t \in BagToSet(timers)
        /\ t.state = "running"
        /\ ~TimerDue
        /\ completionPrefixMap' = r.trie
        /\ lastReload' = IF r.called THEN r.read ELSE lastReload
        /\ timers' = IF r.outcome = "ok" THEN Unrefer(timers (-) One(t))
                     ELSE timers (-) One(t)
        /\ debounceTimer' = IF r.outcome = "ok" THEN "undefined"
                            ELSE debounceTimer
        /\ op' = [NoOp EXCEPT !.kind = "stat", !.outcome = r.outcome,
                              !.before = completionPrefixMap,
                              !.called = r.called, !.policy = pol,
                              !.uri = t.uri]
        /\ UNCHANGED <<completionPrefixMapPath, mapFile, files, links>>
        /\ UNCHANGED <<phase, client, fileWatcher, pending, sinceNotif,
                       burstFirings>>

\* Time passes.
Tick ==
    /\ ~TimerDue
    /\ \/ sinceNotif < DebounceDelay
       \/ \E t \in BagToSet(timers) : t.state = "armed"
    /\ timers' = MapBag(timers, [t \in DOMAIN timers |->
                    IF t.state = "armed"
                    THEN [t EXCEPT !.remaining = LargerOf(0, t.remaining - TimeStep)]
                    ELSE t])
    /\ sinceNotif' = SmallerOf(DebounceDelay, sinceNotif + TimeStep)
    /\ op' = Env
    /\ UNCHANGED <<completionPrefixMap, completionPrefixMapPath, mapFile, files,
                   links, lastReload>>
    /\ UNCHANGED <<phase, client, fileWatcher, pending, debounceTimer,
                   burstFirings>>

\* ClangdContext.dispose(): every subscription is disposed, among them the
\* CustomFileWatcher, its file-system watcher and its listeners; the client
\* is stopped.
Dispose ==
    /\ phase \in {"started", "registered", "watching"}
    /\ ~TimerDue
    /\ phase' = "disposed"
    /\ client' = "stopped"
    /\ fileWatcher' = DisposeFileWatcher(fileWatcher)
    /\ pending' = FALSE
    /\ op' = [NoOp EXCEPT !.kind = "dispose"]
    /\ UNCHANGED <<completionPrefixMap, completionPrefixMapPath, mapFile, files,
                   links, lastReload>>
    /\ UNCHANGED <<debounceTimer, timers, sinceNotif, burstFirings>>

----------------------------------------------------------------------------
(* Operations *)

InitRemap ==
    /\ InitWatcher
    /\ completionPrefixMap = EmptyTrie
    /\ completionPrefixMapPath \in Dirs
    /\ mapFile = [d \in Dirs |-> Absent]
    /\ files = {}
    /\ links = <<>>
    /\ lastReload = "none"
    /\ op = NoOp

\* A tool writes, truncates or removes the mapping file.
WriteMapFile(d, c) ==
    /\ mapFile[d] # c
    /\ mapFile' = [mapFile EXCEPT ![d] = c]
    /\ pending' = (pending \/ (fileWatcher = "live" /\ MapFileExists(c)
                                /\ d = MapFileOf(completionPrefixMapPath)))
    /\ op' = [NoOp EXCEPT !.kind = "write", !.uri = d]
    /\ UNCHANGED <<completionPrefixMap, completionPrefixMapPath, files, links,
                   lastReload>>
    /\ UNCHANGED <<phase, client, fileWatcher, debounceTimer, timers,
                   sinceNotif, burstFirings>>

\* A file appears on disk.
CreateFile(p) ==
    /\ p \notin files /\ p \notin DOMAIN links
    /\ Cardinality(files) < MaxFiles
    /\ files' = files \cup {p}
    /\ op' = Env
    /\ UNCHANGED <<completionPrefixMap, completionPrefixMapPath, mapFile, links,
                   lastReload>>
    /\ UNCHANGED watchVars

\* A symbolic link to an existing file appears on disk or is retargeted.
CreateLink(p, target) ==
    /\ p \notin files
    /\ target \in files
    /\ (p \in DOMAIN links => links[p] # target)
    /\ links' = [q \in (DOMAIN links) \cup {p} |-> IF q = p THEN target ELSE links[q]]
    /\ op' = Env
    /\ UNCHANGED <<completionPrefixMap, completionPrefixMapPath, mapFile, files,
                   lastReload>>
    /\ UNCHANGED watchVars

\* A file disappears from disk (links to it are left dangling).
RemoveFile(p) ==
    /\ p \in files
    /\ files' = files \ {p}
    /\ op' = Env
    /\ UNCHANGED <<completionPrefixMap, completionPrefixMapPath, mapFile, links,
                   lastReload>>
    /\ UNCHANGED watchVars

\* A call of updateCompletionPrefixMap().
Reload ==
    LET c == mapFile[MapFileOf(completionPrefixMapPath)]
        r == updateCompletionPrefixMap(completionPrefixMap, c)
    IN  /\ completionPrefixMap' = r.trie
        /\ lastReload' = Met(c)
        /\ op' = [NoOp EXCEPT !.kind = "reload", !.outcome = r.outcome,
                              !.before = completionPrefixMap, !.called = TRUE,
                              !.again = (op.kind = "reload")]
        /\ UNCHANGED <<completionPrefixMapPath, mapFile, files, links>>
        /\ UNCHANGED watchVars

\* The middleware rewrites one definition / document-link item with path p.
ResolveItem(p) ==
    LET r == Resolve(completionPrefixMap, p)
    IN  /\ op' = [NoOp EXCEPT !.kind = "resolve", !.path = p,
                              !.outcome = r.outcome, !.result = r.result,
                              !.before = completionPrefixMap]
        /\ UNCHANGED <<completionPrefixMap, completionPrefixMapPath, mapFile,
                       files, links, lastReload>>
        /\ UNCHANGED watchVars

NextRemap ==
    \/ \E d \in Dirs, c \in Contents : WriteMapFile(d, c)
    \/ \E p \in Paths : CreateFile(p)
    \/ \E p \in LinkNames, q \in Paths : CreateLink(p, q)
    \/ \E p \in Paths : RemoveFile(p)
    \/ Reload
    \/ \E p \in Paths : ResolveItem(p)

SpecRemap == InitRemap /\ [][NextRemap]_vars

\* A call of getPrefixPathAndReplacePathWithPath(filePath) with filePath = p.
Lookup(p) ==
    /\ op' = [NoOp EXCEPT !.kind = "lookup", !.path = p,
                          !.result = getPrefixPathAndReplacePathWithPath(
                                         completionPrefixMap, p),
                          !.before = completionPrefixMap]
    /\ UNCHANGED <<completionPrefixMap, completionPrefixMapPath, mapFile, files,
                   links, lastReload>>
    /\ UNCHANGED watchVars

\* The lookup over the trie of one mapping document: the document is on disk
\* from the start and is never rewritten.
InitLookup ==
    /\ InitWatcher
    /\ completionPrefixMap = EmptyTrie
    /\ completionPrefixMapPath \in Dirs
    /\ mapFile \in [Dirs -> {Json(d) : d \in LookupDocs}]
    /\ files = {}
    /\ links = <<>>
    /\ lastReload = "none"
    /\ op = NoOp

NextLookup ==
    \/ Reload
    \/ \E p \in LookupPaths : Lookup(p)

SpecLookup == InitLookup /\ [][NextLookup]_vars

InitWatch ==
    /\ InitWatcher
    /\ completionPrefixMap = EmptyTrie
    /\ completionPrefixMapPath \in Dirs
    /\ mapFile \in [Dirs -> WatchContents]
    /\ files = {}
    /\ links = <<>>
    /\ lastReload = "none"
    /\ op = NoOp

NextWatch ==
    \/ \E d \in Dirs, c \in WatchContents : WriteMapFile(d, c)
    \/ \E installed \in BOOLEAN, pol \in Policies : Activate(installed, pol)
    \/ Initialize
    \/ WorkspaceFoldersChanged
    \/ Notify
    \/ \E t \in BagToSet(timers) : TimerFires(t)
    \/ \E t \in BagToSet(timers), pol \in Policies : StatCompletes(t, pol)
    \/ Tick
    \/ Dispose

SpecWatch == InitWatch /\ [][NextWatch]_vars

\* Nothing of the watcher is under way: no event waits for delivery and no
\* timer exists.
Quiet == ~pending /\ timers = EmptyBag

\* The watcher in a calm environment with the setting at 'prompt': the
\* mapping file is written and the workspace folders change only when nothing
\* is under way, so writes are further apart than the debounce delay.
NextWatchLive ==
    \/ \E d \in Dirs, c \in WatchContents : Quiet /\ WriteMapFile(d, c)
    \/ \E installed \in BOOLEAN : Activate(installed, "prompt")
    \/ Initialize
    \/ Quiet /\ WorkspaceFoldersChanged
    \/ Notify
    \/ \E t \in BagToSet(timers) : TimerFires(t)
    \/ \E t \in BagToSet(timers) : StatCompletes(t, "prompt")
    \/ Tick
    \/ Dispose

\* The event loop delivers what it has: the client initializes a registered
\* feature, a pending file event is delivered, time passes, a due timer fires
\* and a stat that was asked for answers.  Writes, folder changes and
\* dispose are up to the user and need not happen.
FairWatch ==
    /\ WF_vars(Initialize)
    /\ WF_vars(Notify)
    /\ WF_vars(Tick)
    /\ WF_vars(\E t \in BagToSet(timers) : TimerFires(t))
    /\ WF_vars(\E t \in BagToSet(timers) : StatCompletes(t, "prompt"))

SpecWatchLive == InitWatch /\ [][NextWatchLive]_vars /\ FairWatch

----------------------------------------------------------------------------
(* Vocabulary of the claims *)

\* ks is a leading segment sequence of ps.
IsLeading(ks, ps) == Len(ks) <= Len(ps) /\ SubSeq(ps, 1, Len(ks)) = ks

\* The node paths that carry a replacement value: the configured keys, split.
Terminals(t) == {n \in DOMAIN t : t[n] # Undefined}

\* The canonical form of the path of the latest resolve.
OpCanon == realpathSync(op.path)

\* The latest operation is a resolve whose lookup ran.
Resolved == op.kind = "resolve" /\ op.outcome = "ok"

\* The lookup for the latest resolve matched key k, a leading segment
\* sequence of the canonical path, and ended on k's node.
MatchedUnder(k) ==
    /\ Resolved
    /\ IsLeading(k, Split(OpCanon))
    /\ getPrefixPathAndReplacePathWithPath(completionPrefixMap, OpCanon)
         = <<Join(k), completionPrefixMap[k]>>

\* The canonical path with its leading key k replaced by k's value.
Candidate(k) ==
    completionPrefixMap[k] \o SubSeq(OpCanon, Len(Join(k)) + 1, Len(OpCanon))

----------------------------------------------------------------------------
(* C1 *)

----------------------------------------------------------------------------
(* C2 *)

\* C2: when no configured prefix key is a leading segment sequence of the
\* path (as received or canonical), resolve returns the path unchanged,
\* whatever exists on disk.
C2_NoKeyNoRemap ==
    (/\ Resolved
     /\ \A k \in Terminals(completionPrefixMap) :
            /\ ~IsLeading(k, Split(op.path))
            /\ ~IsLeading(k, Split(OpCanon)))
    => op.result = op.path

----------------------------------------------------------------------------
(* C3 *)

\* C3: after a successful reload of a well-formed mapping document, the
\* terminal prefixes of the trie are exactly the keys of that document, each
\* with the document's value.
C3_ReloadReplaces ==
    LET c == mapFile[MapFileOf(completionPrefixMapPath)]
    IN  (op.kind = "reload" /\ op.outcome = "ok" /\ c.kind = "json")
        => /\ {Join(n) : n \in Terminals(completionPrefixMap)} = DOMAIN c.doc
           /\ \A k \in DOMAIN c.doc : completionPrefixMap[Split(k)] = c.doc[k]

----------------------------------------------------------------------------
(* C6 *)

\* C6: when the mapping document was absent at the latest reload, every
\* resolve returns the path unchanged, whatever reloads came before.
C6_AbsentMeansNoRemap ==
    (lastReload = "absent" /\ Resolved) => op.result = op.path

----------------------------------------------------------------------------
(* C7 *)

\* C7: a reload that reads a document that is not valid JSON aborts with a
\* parse error and leaves the trie exactly as it was before the call.
C7_MalformedKeepsTrie ==
    LET c == mapFile[MapFileOf(completionPrefixMapPath)]
    IN  (op.kind = "reload" /\ ParseThrows(c))
        => /\ op.outcome = "throws"
           /\ completionPrefixMap = op.before

\* A reload of a torn document over a trie that earlier reloads populated
\* and that does not hold the entry the torn document starts with.
C7_Witness ==
    /\ op.kind = "reload"
    /\ mapFile[MapFileOf(completionPrefixMapPath)] = Torn
    /\ op.outcome = "throws"
    /\ Terminals(op.before) # {}
    /\ op.before[Split(sA)] # sB
    /\ completionPrefixMap = op.before

----------------------------------------------------------------------------
(* C4 *)

\* C4: a burst of notifications, each less than the debounce delay after the
\* one before, starts exactly one timer callback (so at most one reload).
C4_BurstFiresOnce == burstFirings <= 1

----------------------------------------------------------------------------
(* C5 *)

\* The file the latest timer callback statted.
Statted == mapFile[op.uri]

\* C5: when the timer callback finds the file of its notification with size
\* <= 0, updateCompletionPrefixMap is not called and the trie is unchanged,
\* whatever the policy and whatever the size was at notification time.
C5_EmptyWriteFiltered ==
    (op.kind = "stat" /\ MapFileExists(Statted) /\ FileSize(Statted) <= 0)
    => (~op.called /\ completionPrefixMap = op.before)

\* A callback under policy prompt that found the file empty.
C5_Witness ==
    /\ op.kind = "stat"
    /\ MapFileExists(Statted) /\ FileSize(Statted) <= 0
    /\ op.policy = "prompt"
    /\ ~op.called

----------------------------------------------------------------------------
(* C8 *)

\* C8: after the context (and with it the CustomFileWatcher) is disposed, no
\* timer callback starts and no file-size check completes.
C8_NoCallbackAfterDispose ==
    phase = "disposed" => op.kind \notin {"fire", "stat"}

----------------------------------------------------------------------------
(* C9 *)

\* C9: when the mapping document is malformed at startup, activate() still
\* creates and starts the client and leaves the trie unchanged.
C9_MalformedStartupNotFatal ==
    (/\ op.kind = "activate" /\ op.called
     /\ ParseThrows(mapFile[MapFileOf(completionPrefixMapPath)]))
    => (client = "started" /\ completionPrefixMap = op.before)

----------------------------------------------------------------------------
(* C10 *)

\* C10: when canonicalization fails (the path does not exist or is a broken
\* symbolic link), resolve raises no error and yields the path unchanged.
C10_RealpathFailureFallsBack ==
    (op.kind = "resolve" /\ ~existsSync(op.path))
    => (op.outcome = "ok" /\ op.result = op.path)

----------------------------------------------------------------------------
(* C11 *)

\* C11: a timer callback whose file no longer exists when stat answers
\* completes without raising, does not call updateCompletionPrefixMap and
\* leaves the trie unchanged.
C11_DeletedFileHandled ==
    (op.kind = "stat" /\ ~MapFileExists(Statted))
    => /\ op.outcome = "ok"
       /\ ~op.called
       /\ completionPrefixMap = op.before

----------------------------------------------------------------------------
(* C12 *)

\* The configured keys of trie t that are a leading segment sequence of p.
LeadingKeys(t, p) == {k \in Terminals(t) : IsLeading(k, Split(p))}

\* The longest of a non-empty set of segment sequences.
Longest(S) == CHOOSE k \in S : \A j \in S : Len(j) <= Len(k)

\* C12: over the trie of a mapping document (every value a non-empty
\* string), a lookup of a path that has a configured key as a leading segment
\* sequence returns the longest such key together with its value.
C12_LongestPrefixMatch ==
    (/\ op.kind = "lookup"
     /\ \A n \in Terminals(completionPrefixMap) : Truthy(completionPrefixMap[n])
     /\ LeadingKeys(completionPrefixMap, op.path) # {})
    => LET k == Longest(LeadingKeys(completionPrefixMap, op.path))
       IN  op.result = <<Join(k), completionPrefixMap[k]>>

----------------------------------------------------------------------------
(* C13 *)

\* Neither key is a prefix of the other on segment boundaries.
Unrelated(k1, k2) == k1 # k2 /\ ~IsLeading(k1, k2) /\ ~IsLeading(k2, k1)

\* C13: when the document holds two keys k1 and k2, neither a prefix of the
\* other (other keys may be present), a lookup of a path that has k1 as a
\* leading segment sequence never returns k2 with k2's value.
C13_UnrelatedKeyNotReturned ==
    op.kind = "lookup" =>
        \A k1, k2 \in Terminals(completionPrefixMap) :
            (Unrelated(k1, k2) /\ IsLeading(k1, Split(op.path)))
            => op.result # <<Join(k2), completionPrefixMap[k2]>>

\* A lookup of a path under k1 that goes on with the last component of an
\* unrelated key k2 and returns k1.
C13_Witness ==
    /\ op.kind = "lookup"
    /\ \E k1, k2 \in Terminals(completionPrefixMap) :
          /\ Unrelated(k1, k2)
          /\ Truthy(completionPrefixMap[k2])
          /\ IsLeading(k1, Split(op.path))
          /\ Len(Split(op.path)) > Len(k1)
          /\ Split(op.path)[Len(k1) + 1] = k2[Len(k2)]
          /\ op.result = <<Join(k1), completionPrefixMap[k1]>>

----------------------------------------------------------------------------
(* C14 *)

\* The latest two operations are calls of updateCompletionPrefixMap with
\* nothing in between, so with the same mapping document.
ReloadedTwice == op.kind = "reload" /\ op.again

\* C14: after two reloads in succession with an unchanged mapping document,
\* the trie answers every lookup as the trie after the first of them did.
C14_ReloadIdempotent ==
    ReloadedTwice =>
        \A p \in LookupPaths :
            getPrefixPathAndReplacePathWithPath(completionPrefixMap, p)
              = getPrefixPathAndReplacePathWithPath(op.before, p)

\* A second reload of a well-formed document with two keys, over a trie that
\* the first reload changed.
C14_Witness ==
    LET c == mapFile[MapFileOf(completionPrefixMapPath)]
    IN  /\ ReloadedTwice
        /\ op.outcome = "ok"
        /\ c.kind = "json"
        /\ Cardinality(DOMAIN c.doc) = 2
        /\ \E p \in LookupPaths :
              getPrefixPathAndReplacePathWithPath(completionPrefixMap, p)
                # Undefined

----------------------------------------------------------------------------
(* C15 *)

\* The mapping file of the context.
TheMapFile == mapFile[MapFileOf(completionPrefixMapPath)]

\* The mapping file has just been created or changed with content while the
\* CustomFileWatcher exists.
WrittenWhileWatching ==
    /\ op.kind = "write" /\ op.uri = MapFileOf(completionPrefixMapPath)
    /\ phase = "watching"
    /\ MapFileExists(TheMapFile) /\ FileSize(TheMapFile) > 0

\* A timer callback has just called updateCompletionPrefixMap.
ReloadTriggered == op.kind = "stat" /\ op.called

\* C15: under policy prompt, once the mapping file has been created or
\* changed with content while the watcher object is alive, a timer callback
\* eventually calls updateCompletionPrefixMap (unless the context is disposed
\* first), whether or not the file existed when the watcher was created or
\* re-created.
C15_CreationDetected ==
    WrittenWhileWatching ~> (ReloadTriggered \/ phase # "watching")

----------------------------------------------------------------------------
(* C16 *)

\* The timers that are scheduled and have neither fired nor been cancelled.
ArmedTimers ==
    CopiesOf(timers, {t \in BagToSet(timers) : t.state = "armed"})

\* C16: at most one debounce timer is armed at any time.
C16_OneArmedTimer == ArmedTimers <= 1

----------------------------------------------------------------------------
(* C17 *)

\* C17: whenever a lookup returns a match, its matched prefix is a leading
\* segment sequence of the queried path: the walk consumed no component after
\* the first one without a child.
C17_MatchedPrefixLeads ==
    (op.kind = "lookup" /\ op.result # Undefined)
    => IsLeading(Split(op.result[1]), Split(op.path))

----------------------------------------------------------------------------
(* C18 *)

\* The latest timer callback found its file with size > 0.
StattedNonEmpty ==
    op.kind = "stat" /\ MapFileExists(Statted) /\ FileSize(Statted) > 0

\* C18: a timer callback that finds its file with size > 0 dispatches on the
\* policy read at that time: under restart and ignore it does not call
\* updateCompletionPrefixMap and leaves the trie unchanged; under prompt, or
\* with the setting unset, it calls updateCompletionPrefixMap.
C18_PolicyDispatch ==
    StattedNonEmpty =>
        IF op.policy \in {"restart", "ignore"}
        THEN ~op.called /\ completionPrefixMap = op.before
        ELSE op.called

\* A callback that read 'restart' over a well-formed document whose reload
\* would have changed the trie.
C18_Witness ==
    /\ StattedNonEmpty
    /\ op.policy = "restart"
    /\ ~op.called
    /\ TheMapFile.kind = "json"
    /\ updateCompletionPrefixMap(completionPrefixMap, TheMapFile).trie
         # completionPrefixMap

----------------------------------------------------------------------------
(* C19 *)

\* C19: a reload that finds no mapping file raises no error and leaves the
\* trie, nodes and values, exactly as it was before the call.
C19_AbsentKeepsTrie ==
    (op.kind = "reload" /\ ~MapFileExists(TheMapFile))
    => (op.outcome = "ok" /\ completionPrefixMap = op.before)

\* A reload that found no file, over a trie that earlier reloads populated.
C19_Witness ==
    /\ op.kind = "reload"
    /\ ~MapFileExists(TheMapFile)
    /\ op.outcome = "ok"
    /\ Terminals(op.before) # {}
    /\ completionPrefixMap = op.before

----------------------------------------------------------------------------
(* C20 *)

\* The latest operation is a reload that read a well-formed document.
LoadedDoc == op.kind = "reload" /\ op.outcome = "ok" /\ TheMapFile.kind = "json"

\* C20: a successful reload only adds to the trie: every node it found is
\* still there, the keys of the document carry the document's values, and
\* every other node carries the value it had.  Starting from the empty trie,
\* the terminals are therefore the keys of all documents loaded so far, each
\* with the value of the latest loaded document that holds it.
C20_ReloadsOnlyAdd ==
    LoadedDoc =>
        LET doc == TheMapFile.doc
            keys == {Split(k) : k \in DOMAIN doc}
        IN  /\ DOMAIN op.before \subseteq DOMAIN completionPrefixMap
            /\ Terminals(completionPrefixMap) = Terminals(op.before) \cup keys
            /\ \A k \in DOMAIN doc : completionPrefixMap[Split(k)] = doc[k]
            /\ \A n \in (DOMAIN op.before) \ keys :
                  completionPrefixMap[n] = op.before[n]

\* A reload of a document that lacks a key an earlier document configured:
\* that key is still a terminal with its earlier value.
C20_Witness ==
    /\ LoadedDoc
    /\ \E n \in Terminals(op.before) :
          /\ Join(n) \notin DOMAIN TheMapFile.doc
          /\ completionPrefixMap[n] = op.before[n]
    /\ DOMAIN TheMapFile.doc # {}

====
